---- MODULE Spec2Model ----
(***************************************************************************)
(* Agent Health Monitor: the scoring -> diagnosis -> recommendation ->     *)
(* document-mutation pipeline.                                             *)
(*                                                                         *)
(* Text is a sequence of tokens.  A token is one character ("#", " ",      *)
(* "\n") or an atomic word standing for a run of characters that none of   *)
(* the patterns of the code can match in part ("text", the tail of a       *)
(* marker heading, a category name).                                       *)
(***************************************************************************)
EXTENDS Integers, Sequences, FiniteSets, TLC

VARIABLES
    program,        \* which executable of the repository is running
    files,          \* the agents directory: path -> [exists, content]
    proc,           \* per caller of applyImprovements: its position and locals
    calls,          \* number of applyImprovements / improve calls started
    applied,        \* per path: successful mutations, and the last plan
    writes,         \* per path: number of write operations issued
    original,       \* the agents directory as the run found it
    improvedAgents, \* demo server: emails of the agents it has improved
    response,       \* demo server: the last HTTP response of /api/improve
    metrics,        \* analyzer: the metrics record being scored
    health,         \* analyzer: the HealthScore returned for it
    previous,       \* analyzer: overall and status of the result before
    diagnosis,      \* the root causes found for the scored record
    recs,           \* improver: a call of generateRecommendations and its plan
    run,            \* index.js main: its position, inputs and results
    selected,       \* demo server: the role and roleKey of the last /api/improve
    demoAnalysis,   \* demo server: the last response of /api/analyze
    db,             \* backend: the rows of the agents and improvements tables
    http,           \* backend: per /api/improve request, its HTTP response
    ingest          \* backend: per ingestion run, its position and locals

mutatorVars ==
    <<program, files, proc, calls, applied, writes, original, improvedAgents,
      response>>

scoringVars == <<metrics, health, previous, diagnosis>>

pipelineVars == <<recs, run>>

demoVars == <<selected, demoAnalysis>>

backendVars == <<db, http, ingest>>

vars == <<mutatorVars, scoringVars, pipelineVars, demoVars, backendVars>>

-----------------------------------------------------------------------------
(* Bounds *)

MaxPieces == 3      \* an initial document is at most this many pieces
MaxCalls == 2       \* calls started in one run
NumPlanCats == 1    \* plans carry root causes among the first categories
MaxCommits == 2         \* the grid of metrics records: each counter from 0
MaxPullRequests == 2
MaxCodeReviews == 4
MaxBugs == 1
MaxTechDebt == 4
MaxVelocity == 3
MaxCauses == 3      \* a list of root causes handed to generateRecommendations
MaxTeam == 2        \* agents in one scrape result

-----------------------------------------------------------------------------
(* Text helpers: String.prototype.includes, RegExp matching *)

NL == "\n"

Flatten(seqs) ==
    LET F[i \in 0..Len(seqs)] == IF i = 0 THEN <<>> ELSE F[i - 1] \o seqs[i]
    IN  F[Len(seqs)]

MatchAt(content, i, pat) ==
    /\ i >= 1
    /\ i + Len(pat) - 1 <= Len(content)
    /\ SubSeq(content, i, i + Len(pat) - 1) = pat

Occurrences(content, pat) == {i \in 1..Len(content) : MatchAt(content, i, pat)}

Includes(content, pat) == Occurrences(content, pat) # {}

Min(S) == CHOOSE x \in S : \A y \in S : x <= y

-----------------------------------------------------------------------------
(* AgentImprover: the rendered instruction block *)

Categories == <<"Productivity", "Quality", "Collaboration", "Reliability">>

\* '## Performance Improvement Plan'
improvementMarker == <<"#", "#", " ", "Performance Improvement Plan">>

\* the lookahead \n##<space> of the section regex
NextHeading == <<NL, "#", "#", " ">>

\* number of agentPromptChanges of the recommendation of a category
PromptChanges(category) == IF category = "Quality" THEN 4 ELSE 3

\* rootCauses.map(cause => `- **${cause.category}**: ...`)
CauseLines(causes) ==
    Flatten([i \in 1..Len(causes) |-> <<NL, "-", " ", causes[i]>>])

\* recommendations.flatMap(rec => rec.agentPromptChanges.map(c => `- ${c}`))
GuidelineLines(causes) ==
    Flatten([i \in 1..Len(causes) |->
        Flatten([k \in 1..PromptChanges(causes[i]) |->
            <<NL, "-", " ", "Add", causes[i]>>])])

\* updates.instructionsToAdd = [...].join('\n')
instructionsToAdd(causes) ==
    improvementMarker
      \o <<NL, "**Current Health Score**">>
      \o <<NL, "**Target Score**">>
      \o <<NL>>
      \o <<NL, "#", "#", "#", " ", "Critical Areas for Improvement">>
      \o CauseLines(causes)
      \o <<NL>>
      \o <<NL, "#", "#", "#", " ", "New Guidelines">>
      \o GuidelineLines(causes)

-----------------------------------------------------------------------------
(* AgentImprover.applyImprovements: the section replace-or-append *)

\* first index >= from where the marker starts, 0 if none
FindMarker(content, from) ==
    LET hits == {i \in Occurrences(content, improvementMarker) : i >= from}
    IN  IF hits = {} THEN 0 ELSE Min(hits)

\* [\s\S]*?(?=\n## |$): the lazy body ends at the first position at or after
\* `from` where a top-level heading follows or the input ends
SectionEnd(content, from) ==
    Min({j \in from..(Len(content) + 1) :
            j = Len(content) + 1 \/ MatchAt(content, j, NextHeading)})

\* content.replace(regex, block) with the g flag: every match, left to right
RECURSIVE ReplaceFrom(_, _, _)
ReplaceFrom(content, from, block) ==
    LET k == FindMarker(content, from)
    IN  IF k = 0
        THEN SubSeq(content, from, Len(content))
        ELSE SubSeq(content, from, k - 1) \o block
               \o ReplaceFrom(content,
                              SectionEnd(content, k + Len(improvementMarker)),
                              block)

ReplaceSections(content, block) == ReplaceFrom(content, 1, block)

\* a variant that appends whether or not the marker is present
UpdateContentAlwaysAppend(content, block) == content \o <<NL, NL>> \o block

\* lines 297-309 of applyImprovements
UpdateContent(content, block) ==
    IF Includes(content, improvementMarker)
    THEN ReplaceSections(content, block)
    ELSE content \o <<NL, NL>> \o block

-----------------------------------------------------------------------------------------------------------------------------------------------------
(* AgentAnalyzer: the scoring engine.  Scores are carried as exact fractions  *)
(* [n, d] with d > 0; the metrics are whole numbers.  The code computes in    *)
(* IEEE-754 doubles, where a product such as 90 * 0.35 can fall one unit in   *)
(* the last place below the exact value; that can move a weighted sum lying   *)
(* exactly on a half or on a threshold, and leaves ranges as they are.        *)

Rat(n, d) == [n |-> n, d |-> d]

RatLE(a, b) == a.n * b.d <= b.n * a.d

\* Math.min, Math.max
RatMin(a, b) == IF RatLE(a, b) THEN a ELSE b

RatMax(a, b) == IF RatLE(a, b) THEN b ELSE a

RatAdd(a, b) == Rat(a.n * b.d + b.n * a.d, a.d * b.d)

RatHalf(a) == Rat(a.n, 2 * a.d)

\* Math.round: the nearest integer, a half rounding up
MathRound(a) == (2 * a.n + a.d) \div (2 * a.d)

\* constructor: the default thresholds
DefaultThresholds == [minCommitsPerSprint |-> 5, minPRsPerSprint |-> 2]

\* a variant that takes the lower of the two ratios, not their average
ProductivityScoreOfMin(a, thresholds) ==
    LET commitScore == RatMin(Rat(a.commits * 100, thresholds.minCommitsPerSprint),
                              Rat(100, 1))
        prScore == RatMin(Rat(a.pullRequests * 100, thresholds.minPRsPerSprint),
                          Rat(100, 1))
    IN  MathRound(RatMin(commitScore, prScore))

calculateProductivityScore(a, thresholds) ==
    LET commitScore == RatMin(Rat(a.commits * 100, thresholds.minCommitsPerSprint),
                              Rat(100, 1))
        prScore == RatMin(Rat(a.pullRequests * 100, thresholds.minPRsPerSprint),
                          Rat(100, 1))
    IN  MathRound(RatHalf(RatAdd(commitScore, prScore)))

\* a variant without the floor at 0
QualityScoreNoFloor(a) ==
    LET bugPenalty == a.bugsIntroduced * 10
        baseScore == 100 - bugPenalty
        techDebtScore == IF 100 - a.techDebtScore > 0
                         THEN 100 - a.techDebtScore ELSE 0
    IN  MathRound(RatHalf(Rat(baseScore + techDebtScore, 1)))

\* a variant that does not floor the debt term at 0
QualityScoreNoDebtFloor(a) ==
    LET bugPenalty == a.bugsIntroduced * 10
        baseScore == 100 - bugPenalty
        techDebtScore == 100 - a.techDebtScore
    IN  MathRound(RatMax(Rat(0, 1), RatHalf(Rat(baseScore + techDebtScore, 1))))

calculateQualityScore(a) ==
    LET bugPenalty == a.bugsIntroduced * 10
        baseScore == 100 - bugPenalty
        techDebtScore == IF 100 - a.techDebtScore > 0
                         THEN 100 - a.techDebtScore ELSE 0
    IN  MathRound(RatMax(Rat(0, 1), RatHalf(Rat(baseScore + techDebtScore, 1))))

calculateCollaborationScore(a) ==
    LET reviewScore == RatMin(Rat(a.codeReviews * 100, 3), Rat(100, 1))
    IN  MathRound(reviewScore)

calculateReliabilityScore(a) ==
    LET velocityScore == RatMin(Rat(a.velocity * 10, 1), Rat(100, 1))
    IN  MathRound(velocityScore)

getHealthStatus(score) ==
    IF RatLE(Rat(80, 1), score) THEN "healthy"
    ELSE IF RatLE(Rat(60, 1), score) THEN "warning"
    ELSE "critical"

\* the weights 0.3, 0.35, 0.2, 0.15, in hundredths
weights ==
    [productivity |-> 30, quality |-> 35, collaboration |-> 20,
     reliability |-> 15]

ScoreKeys == {"productivity", "quality", "collaboration", "reliability"}

RECURSIVE WeightedSum(_, _)
WeightedSum(scores, keys) ==
    IF keys = {} THEN 0
    ELSE LET key == CHOOSE k \in keys : TRUE
         IN  scores[key] * weights[key] + WeightedSum(scores, keys \ {key})

calculateHealthScore(a, thresholds) ==
    LET scores ==
            [productivity |-> calculateProductivityScore(a, thresholds),
             quality |-> calculateQualityScore(a),
             collaboration |-> calculateCollaborationScore(a),
             reliability |-> calculateReliabilityScore(a)]
        overallScore == Rat(WeightedSum(scores, ScoreKeys), 100)
    IN  [overall |-> MathRound(overallScore),
         breakdown |-> scores,
         status |-> getHealthStatus(overallScore)]

\* the arguments of the four Math.round calls of the sub-scores
UnroundedScores(a, thresholds) ==
    [productivity |->
        RatHalf(RatAdd(
            RatMin(Rat(a.commits * 100, thresholds.minCommitsPerSprint),
                   Rat(100, 1)),
            RatMin(Rat(a.pullRequests * 100, thresholds.minPRsPerSprint),
                   Rat(100, 1)))),
     quality |->
        RatMax(Rat(0, 1),
               RatHalf(Rat((100 - a.bugsIntroduced * 10)
                             + (IF 100 - a.techDebtScore > 0
                                THEN 100 - a.techDebtScore ELSE 0), 1))),
     collaboration |-> RatMin(Rat(a.codeReviews * 100, 3), Rat(100, 1)),
     reliability |-> RatMin(Rat(a.velocity * 10, 1), Rat(100, 1))]

MetricsRecord(c, pr, cr, b, td, v) ==
    [commits |-> c, pullRequests |-> pr, codeReviews |-> cr,
     bugsIntroduced |-> b, techDebtScore |-> td, velocity |-> v]

\* records with every counter small
GridRecords ==
    {MetricsRecord(c, pr, cr, b, td, v) :
        c \in 0..MaxCommits, pr \in 0..MaxPullRequests,
        cr \in 0..MaxCodeReviews, b \in 0..MaxBugs, td \in 0..MaxTechDebt,
        v \in 0..MaxVelocity}

\* the two end-to-end scenarios of the design, and records whose counters lie
\* beyond every cap and floor of the four sub-scores
ScenarioRecords ==
    {MetricsRecord(3, 1, 0, 4, 70, 2),
     MetricsRecord(14, 6, 6, 0, 5, 9),
     MetricsRecord(0, 0, 0, 12, 120, 0),
     MetricsRecord(40, 20, 9, 25, 300, 15)}

\* records whose sub-scores lie on and next to the diagnosis threshold
BoundaryRecords ==
    {MetricsRecord(1, 2, 2, 8, 0, 6),
     MetricsRecord(1, 2, 2, 0, 81, 6),
     MetricsRecord(3, 1, 1, 0, 82, 5),
     MetricsRecord(5, 2, 3, 8, 2, 7),
     MetricsRecord(5, 2, 3, 0, 150, 10),
     MetricsRecord(5, 0, 3, 0, 0, 10)}

Records == GridRecords \cup ScenarioRecords \cup BoundaryRecords

NoAgent == MetricsRecord(0, 0, 0, 0, 0, 0)

NoHealth ==
    [overall |-> 0 - 1,
     breakdown |-> [productivity |-> 0, quality |-> 0, collaboration |-> 0,
                    reliability |-> 0],
     status |-> "none"]

NoPrevious == [overall |-> 0 - 1, status |-> "none"]

NoDiagnosis == [done |-> FALSE, rootCauses |-> <<>>, identified |-> <<>>]

\* calculateHealthScore(agent) is called on a record
Score(a) ==
    /\ health.status = "none"
    /\ metrics' = a
    /\ health' = calculateHealthScore(a, DefaultThresholds)
    /\ UNCHANGED <<previous, diagnosis, mutatorVars, pipelineVars, demoVars, backendVars>>

\* analyzeTeam, lines 294-297: the map keeps the result and takes the next
\* record
NextRecord ==
    /\ health.status # "none"
    /\ previous' = [overall |-> health.overall, status |-> health.status]
    /\ metrics' = NoAgent
    /\ health' = NoHealth
    /\ diagnosis' = NoDiagnosis
    /\ UNCHANGED <<mutatorVars, pipelineVars, demoVars, backendVars>>

-----------------------------------------------------------------------------
(* Root-cause diagnosis: AgentImprover.analyzeRootCauses and                *)
(* AgentAnalyzer.identifyRootCauses.  A cause carries its category, its     *)
(* severity and the sub-score that triggered it.                            *)

RootCause(category, severity, score) ==
    [category |-> category, severity |-> severity, score |-> score]

\* a cause of the improver, with its issue strings
IssueCause(category, severity, score, issues) ==
    [category |-> category, severity |-> severity, score |-> score,
     issues |-> issues]

\* lines 52-59; a property the record does not have is undefined, and a
\* comparison with undefined is false
productivityCauses(agent) ==
    (IF "commits" \in DOMAIN agent /\ agent.commits < 5
     THEN <<"Insufficient commit frequency">> ELSE <<>>)
    \o (IF "pull_requests" \in DOMAIN agent /\ agent.pull_requests < 2
        THEN <<"Low PR submission rate">> ELSE <<>>)

\* lines 76-83; each string stands for the issue with its count
qualityIssues(agent) ==
    (IF "bugs_introduced" \in DOMAIN agent /\ agent.bugs_introduced > 2
     THEN <<"High bug introduction rate">> ELSE <<>>)
    \o (IF "tech_debt_score" \in DOMAIN agent /\ agent.tech_debt_score > 50
        THEN <<"Elevated technical debt score">> ELSE <<>>)

\* a variant that also reports a sub-score of exactly 60
analyzeRootCausesAtMost60(agent, analysis) ==
    LET breakdown == analysis.lowestPerformer.breakdown
    IN  (IF breakdown.productivity <= 60
         THEN <<IssueCause("Productivity", "high", breakdown.productivity,
                          productivityCauses(agent))>>
         ELSE <<>>)
        \o (IF breakdown.quality <= 60
            THEN <<IssueCause("Quality", "critical", breakdown.quality,
                          qualityIssues(agent))>>
            ELSE <<>>)
        \o (IF breakdown.collaboration <= 60
            THEN <<IssueCause("Collaboration", "medium", breakdown.collaboration,
                              <<"Insufficient code reviews">>)>>
            ELSE <<>>)
        \o (IF breakdown.reliability <= 60
            THEN <<IssueCause("Reliability", "medium", breakdown.reliability,
                          <<"Inconsistent velocity or task completion">>)>>
            ELSE <<>>)

\* a variant that reports the most severe cause first
analyzeRootCausesBySeverity(agent, analysis) ==
    LET breakdown == analysis.lowestPerformer.breakdown
    IN  (IF breakdown.quality < 60
         THEN <<IssueCause("Quality", "critical", breakdown.quality,
                          qualityIssues(agent))>>
         ELSE <<>>)
        \o (IF breakdown.productivity < 60
            THEN <<IssueCause("Productivity", "high", breakdown.productivity,
                          productivityCauses(agent))>>
            ELSE <<>>)
        \o (IF breakdown.collaboration < 60
            THEN <<IssueCause("Collaboration", "medium", breakdown.collaboration,
                              <<"Insufficient code reviews">>)>>
            ELSE <<>>)
        \o (IF breakdown.reliability < 60
            THEN <<IssueCause("Reliability", "medium", breakdown.reliability,
                          <<"Inconsistent velocity or task completion">>)>>
            ELSE <<>>)

\* agent-improver.js: four tests in the order of the source, each pushing
\* one cause
analyzeRootCauses(agent, analysis) ==
    LET breakdown == analysis.lowestPerformer.breakdown
    IN  (IF breakdown.productivity < 60
         THEN <<IssueCause("Productivity", "high", breakdown.productivity,
                          productivityCauses(agent))>>
         ELSE <<>>)
        \o (IF breakdown.quality < 60
            THEN <<IssueCause("Quality", "critical", breakdown.quality,
                          qualityIssues(agent))>>
            ELSE <<>>)
        \o (IF breakdown.collaboration < 60
            THEN <<IssueCause("Collaboration", "medium", breakdown.collaboration,
                              <<"Insufficient code reviews">>)>>
            ELSE <<>>)
        \o (IF breakdown.reliability < 60
            THEN <<IssueCause("Reliability", "medium", breakdown.reliability,
                          <<"Inconsistent velocity or task completion">>)>>
            ELSE <<>>)

\* the analyzer's own diagnosis, on agent.health.breakdown
identifyRootCauses(agent) ==
    LET breakdown == agent.health.breakdown
    IN  (IF breakdown.productivity < 60
         THEN <<RootCause("productivity", "high", breakdown.productivity)>>
         ELSE <<>>)
        \o (IF breakdown.quality < 60
            THEN <<RootCause("quality", "critical", breakdown.quality)>>
            ELSE <<>>)
        \o (IF breakdown.collaboration < 60
            THEN <<RootCause("collaboration", "medium",
                             breakdown.collaboration)>>
            ELSE <<>>)
        \o (IF breakdown.reliability < 60
            THEN <<RootCause("reliability", "medium", breakdown.reliability)>>
            ELSE <<>>)

\* the record of the lowest performer that analyzeTeam builds from a scored
\* agent (lines 311-317)
LowestPerformerOf(h) ==
    [score |-> h.overall, status |-> h.status, breakdown |-> h.breakdown]

\* both diagnosers are called on the scored record
Diagnose ==
    /\ health.status # "none"
    /\ ~diagnosis.done
    /\ diagnosis' =
          [done |-> TRUE,
           rootCauses |->
               analyzeRootCauses(metrics,
                                 [lowestPerformer |-> LowestPerformerOf(health)]),
           identified |-> identifyRootCauses([health |-> health])]
    /\ UNCHANGED <<metrics, health, previous, mutatorVars, pipelineVars, demoVars, backendVars>>

-----------------------------------------------------------------------------
(* AgentImprover.generateRecommendations and the plan rendered from it *)

Recommendation(priority, category) ==
    [priority |-> priority, category |-> category,
     agentPromptChanges |-> PromptChanges(category)]

\* the switch on cause.category: one push per case, none for another value
RecommendationsFor(cause) ==
    IF cause.category = "Productivity"
    THEN <<Recommendation("high", "Productivity")>>
    ELSE IF cause.category = "Quality"
    THEN <<Recommendation("critical", "Quality")>>
    ELSE IF cause.category = "Collaboration"
    THEN <<Recommendation("medium", "Collaboration")>>
    ELSE IF cause.category = "Reliability"
    THEN <<Recommendation("medium", "Reliability")>>
    ELSE <<>>

\* a variant that puts each recommendation at the front of the list
generateRecommendationsUnshift(rootCauses, agent) ==
    Flatten([i \in 1..Len(rootCauses) |->
                RecommendationsFor(rootCauses[Len(rootCauses) + 1 - i])])

\* rootCauses.forEach(cause => switch ... recommendations.push(...))
generateRecommendations(rootCauses, agent) ==
    Flatten([i \in 1..Len(rootCauses) |-> RecommendationsFor(rootCauses[i])])

CategoriesOf(list) == [i \in 1..Len(list) |-> list[i].category]

\* severity is fixed per category
SeverityOf(category) ==
    IF category = "Productivity" THEN "high"
    ELSE IF category = "Quality" THEN "critical"
    ELSE "medium"

RECURSIVE SeqsUpTo(_, _)
SeqsUpTo(S, n) ==
    IF n = 0 THEN {<<>>}
    ELSE LET shorter == SeqsUpTo(S, n - 1)
         IN  shorter \cup {Append(q, x) : q \in shorter, x \in S}

\* lists of root causes over the four categories, in any order, with repeats
RootCauseLists ==
    SeqsUpTo({RootCause(Categories[i], SeverityOf(Categories[i]), 0) :
                 i \in 1..Len(Categories)}, MaxCauses)

NoRecs ==
    [pc |-> "idle", rootCauses |-> <<>>, recommendations |-> <<>>,
     instructionsToAdd |-> <<>>]

\* generateImprovements, line 28, on a list of root causes
GenerateRecommendations(rootCauses) ==
    /\ recs.pc = "idle"
    /\ recs' = [NoRecs EXCEPT
                  !.pc = "recommended",
                  !.rootCauses = rootCauses,
                  !.recommendations =
                      generateRecommendations(rootCauses, NoAgent)]
    /\ UNCHANGED <<mutatorVars, scoringVars, run, demoVars, backendVars>>

\* generateImprovements, line 29: generateAgentDefinitionUpdates renders the
\* block from the causes and the recommendations
GenerateAgentDefinitionUpdates ==
    /\ recs.pc = "recommended"
    /\ recs' = [recs EXCEPT
                  !.pc = "rendered",
                  !.instructionsToAdd =
                      instructionsToAdd(CategoriesOf(recs.rootCauses))]
    /\ UNCHANGED <<mutatorVars, scoringVars, run, demoVars, backendVars>>

-----
(* The agents directory and the callers of applyImprovements *)

\* '.claude/agents/<local-part>-agent.md' of two agents and of an agent whose
\* email is the empty string
Paths == {"alice-agent.md", "bob-agent.md", "-agent.md"}

\* index.js main awaits each call; the backend serves requests concurrently
Callers == {"main", "req1", "req2"}

CallersOf(prog) ==
    IF prog = "pipeline" THEN {"main"}
    ELSE IF prog = "backend" THEN {"req1", "req2"}
    ELSE {}

Missing == [exists |-> FALSE, content |-> <<>>]

File(content) == [exists |-> TRUE, content |-> content]

\* the sub-sequences of the first n categories, in the fixed category order
CauseLists(n) ==
    {SelectSeq(SubSeq(Categories, 1, n), LAMBDA c : c \in S) :
        S \in SUBSET {Categories[i] : i \in 1..n}}

\* no call has returned yet
NoResult ==
    [returned |-> FALSE, success |-> FALSE, filePath |-> "", changes |-> <<>>,
     error |-> ""]

\* lines 316-321
Success(path, block) ==
    [returned |-> TRUE, success |-> TRUE, filePath |-> path, changes |-> block,
     error |-> ""]

\* lines 322-328: the catch block
Failure(message) ==
    [returned |-> TRUE, success |-> FALSE, filePath |-> "", changes |-> <<>>,
     error |-> message]

IdleProc ==
    [pc |-> "idle", filePath |-> "", causes |-> <<>>, read |-> <<>>,
     content |-> <<>>, result |-> NoResult, stale |-> FALSE,
     overwrote |-> FALSE]

NotApplied == [count |-> 0, last |-> <<>>, same |-> TRUE]

\* pieces an initial document is made of
Pieces ==
    {<<"text">>, <<"#">>, improvementMarker, NextHeading,
     <<"Performance Improvement Plan">>}

RECURSIVE DocsOf(_)
DocsOf(n) ==
    IF n = 0 THEN {<<>>}
    ELSE LET shorter == DocsOf(n - 1)
         IN  shorter \cup {d \o p : d \in shorter, p \in Pieces}

Docs == DocsOf(MaxPieces)

-----------------------------------------------------------------------------
(* AgentImprover.applyImprovements, one action per await *)

\* lines 285-295: entered with a plan, up to the await of fs.readFile
Call(p, path, causes) ==
    /\ p \in CallersOf(program)
    /\ proc[p].pc = "idle"
    /\ calls < MaxCalls
    /\ calls' = calls + 1
    /\ proc' = [proc EXCEPT ![p] =
                    [IdleProc EXCEPT !.pc = "read", !.filePath = path,
                                     !.causes = causes]]
    /\ UNCHANGED <<scoringVars, pipelineVars, demoVars, backendVars>>
    /\ UNCHANGED <<program, files, applied, writes, original, improvedAgents, response>>

\* a variant that reads a missing file as an empty document
ReadFileOrEmpty(p) ==
    /\ proc[p].pc = "read"
    /\ LET content == files[proc[p].filePath].content
       IN  proc' = [proc EXCEPT
                ![p].pc = "write",
                ![p].read = content,
                ![p].content =
                    UpdateContent(content, instructionsToAdd(proc[p].causes))]
    /\ UNCHANGED <<scoringVars, pipelineVars, demoVars, backendVars>>
    /\ UNCHANGED <<program, files, calls, applied, writes, original, improvedAgents,
                   response>>

\* line 295 resolves; lines 297-312 up to the await of fs.writeFile
ReadFileOk(p) ==
    /\ proc[p].pc = "read"
    /\ files[proc[p].filePath].exists
    /\ LET content == files[proc[p].filePath].content
       IN  proc' = [proc EXCEPT
                ![p].pc = "write",
                ![p].read = content,
                ![p].content =
                    UpdateContent(content, instructionsToAdd(proc[p].causes))]
    /\ UNCHANGED <<scoringVars, pipelineVars, demoVars, backendVars>>
    /\ UNCHANGED <<program, files, calls, applied, writes, original, improvedAgents,
                   response>>

\* line 295 rejects (ENOENT when the file is missing, or any read error)
ReadFileFail(p) ==
    /\ proc[p].pc = "read"
    /\ \E message \in (IF files[proc[p].filePath].exists
                       THEN {"EACCES"} ELSE {"ENOENT"}) :
          proc' = [proc EXCEPT ![p].pc = "idle",
                               ![p].result = Failure(message)]
    /\ UNCHANGED <<scoringVars, pipelineVars, demoVars, backendVars>>
    /\ UNCHANGED <<program, files, calls, applied, writes, original, improvedAgents,
                   response>>

\* a caller other than p that has read `path` and not yet written it
InWindow(q, path) == proc[q].pc = "write" /\ proc[q].filePath = path

\* line 312 resolves; lines 314-321
WriteFileOk(p) ==
    /\ proc[p].pc = "write"
    /\ LET path == proc[p].filePath
           last == applied[path]
       IN  /\ files' = [files EXCEPT ![path] = File(proc[p].content)]
           /\ writes' = [writes EXCEPT ![path] = @ + 1]
           /\ applied' = [applied EXCEPT ![path] =
                  [count |-> last.count + 1,
                   last |-> proc[p].causes,
                   same |-> last.count = 0
                              \/ (last.same /\ last.last = proc[p].causes)]]
           /\ proc' = [q \in Callers |->
                  IF q = p
                  THEN [proc[p] EXCEPT
                          !.pc = "idle",
                          !.overwrote = proc[p].stale,
                          !.result = Success(path,
                                        instructionsToAdd(proc[p].causes))]
                  ELSE IF InWindow(q, path)
                       THEN [proc[q] EXCEPT !.stale = TRUE]
                       ELSE proc[q]]
    /\ UNCHANGED <<scoringVars, pipelineVars, demoVars, backendVars>>
    /\ UNCHANGED <<program, calls, original, improvedAgents, response>>

\* a variant without the catch block: the rejection reaches the caller
WriteFileRejects(p) ==
    /\ proc[p].pc = "write"
    /\ proc' = [proc EXCEPT ![p].pc = "thrown"]
    /\ writes' = [writes EXCEPT ![proc[p].filePath] = @ + 1]
    /\ UNCHANGED <<scoringVars, pipelineVars, demoVars, backendVars>>
    /\ UNCHANGED <<program, files, calls, applied, original, improvedAgents,
                   response>>

\* line 312 rejects; the file keeps its content
WriteFileFail(p) ==
    /\ proc[p].pc = "write"
    /\ proc' = [proc EXCEPT ![p].pc = "idle", ![p].result = Failure("EACCES")]
    /\ writes' = [writes EXCEPT ![proc[p].filePath] = @ + 1]
    /\ UNCHANGED <<scoringVars, pipelineVars, demoVars, backendVars>>
    /\ UNCHANGED <<program, files, calls, applied, original, improvedAgents,
                   response>>

applyImprovements(p) ==
    \/ \E path \in Paths, causes \in CauseLists(NumPlanCats) :
          Call(p, path, causes)
    \/ ReadFileOk(p)
    \/ ReadFileFail(p)
    \/ WriteFileOk(p)
    \/ WriteFileFail(p)

-----------------------------------------------------------------------------------------------------------------------------------------------------
(* Demo server: POST /api/improve, a synchronous handler *)

\* '## <target emoji> Performance Improvements'
demoMarker == <<"#", "#", " ", "Performance Improvements">>

\* the order in which the handler tests agent.weaknesses
DemoCategories == <<"Quality", "Productivity", "Collaboration", "Reliability">>

DemoWeakLists(n) ==
    {SelectSeq(SubSeq(DemoCategories, 1, n), LAMBDA c : c \in S) :
        S \in SUBSET {DemoCategories[i] : i \in 1..n}}

\* the agents the client posts: detect-agents gives each its file, its email
\* and the role 'Developer' when neither a Role line nor the content gives one
DemoAgents ==
    {[email |-> "alice@todo-ai-agents.demo", filePath |-> "alice-agent.md",
      role |-> <<"D", "e", "v", "e", "l", "o", "p", "e", "r">>],
     [email |-> "bob@todo-ai-agents.demo", filePath |-> "bob-agent.md",
      role |-> <<"D", "e", "v", "e", "l", "o", "p", "e", "r">>]}

\* weakAreas.map(area => `- ${area}`).join('\n')
WeakAreaLines(weak) ==
    Flatten([i \in 1..Len(weak) |->
        (IF i = 1 THEN <<>> ELSE <<NL>>) \o <<"-", " ", weak[i]>>])

\* improvements.join('\n\n'): one #### block of bullet lines per weak area
ImprovementBlocks(weak) ==
    Flatten([i \in 1..Len(weak) |->
        (IF i = 1 THEN <<>> ELSE <<NL, NL>>)
          \o <<"#", "#", "#", "#", " ", weak[i], NL, "-", " ", "text">>])

\* the improvementSection template
improvementSection(weak) ==
    <<NL, NL>> \o demoMarker
      \o <<NL, NL, "*Applied*", NL, "*Overall Score*", NL>>
      \o <<NL, "#", "#", "#", " ", "Critical Areas Identified", NL>>
      \o WeakAreaLines(weak)
      \o <<NL>>
      \o <<NL, "#", "#", "#", " ", "Improvement Actions", NL, NL>>
      \o ImprovementBlocks(weak)
      \o <<NL>>
      \o <<NL, "#", "#", "#", " ", "Action Items Checklist">>
      \o <<NL, "-", " ", "[ ]", " ", "text">>
      \o <<NL>>
      \o <<NL, "-", "-", "-", NL, "*Managed by Agent Health Monitor*", NL>>

NoResponse == [status |-> 0, success |-> FALSE, filePath |-> ""]

-----------------------------------------------------------------------------
(* Demo server: the role of the posted agent selects the phrasing set *)

\* a role is the sequence of its characters, so that toLowerCase and includes
\* act on it as they do on the string: 'Product Owner', 'Backend Developer',
\* 'Frontend Developer', 'DevOps Engineer', the default 'Developer' of
\* detect-agents, 'Build Engineer', 'Product Manager', 'QA Engineer'
RoleStrings ==
    <<
      <<"P", "r", "o", "d", "u", "c",
        "t", " ", "O", "w", "n", "e", "r">>,
      <<"B", "a", "c", "k", "e", "n", "d", " ",
        "D", "e", "v", "e", "l", "o", "p", "e", "r">>,
      <<"F", "r", "o", "n", "t", "e", "n", "d", " ",
        "D", "e", "v", "e", "l", "o", "p", "e", "r">>,
      <<"D", "e", "v", "O", "p", "s", " ",
        "E", "n", "g", "i", "n", "e", "e", "r">>,
      <<"D", "e", "v", "e", "l", "o", "p", "e", "r">>,
      <<"B", "u", "i", "l", "d", " ", "E",
        "n", "g", "i", "n", "e", "e", "r">>,
      <<"P", "r", "o", "d", "u", "c", "t",
        " ", "M", "a", "n", "a", "g", "e", "r">>,
      <<"Q", "A", " ", "E", "n", "g", "i", "n", "e", "e", "r">>
    >>

\* the four keys of roleSpecificImprovements
RecognizedRoles == {RoleStrings[k] : k \in 1..4}

\* the roles a client posts: the recognized ones, the default of
\* detect-agents, and roles of other trades
Roles == {RoleStrings[k] : k \in 1..Len(RoleStrings)}

\* String.prototype.toLowerCase
toLowerCase(str) ==
    LET UpperCase ==
            <<"A", "B", "C", "D", "E", "F", "G", "H", "I", "J", "K", "L", "M",
              "N", "O", "P", "Q", "R", "S", "T", "U", "V", "W", "X", "Y", "Z">>
        LowerCase ==
            <<"a", "b", "c", "d", "e", "f", "g", "h", "i", "j", "k", "l", "m",
              "n", "o", "p", "q", "r", "s", "t", "u", "v", "w", "x", "y", "z">>
    IN  [i \in 1..Len(str) |->
            IF \E k \in 1..Len(UpperCase) : UpperCase[k] = str[i]
            THEN LowerCase[CHOOSE k \in 1..Len(UpperCase) :
                                UpperCase[k] = str[i]]
            ELSE str[i]]

\* part_001 lines 323-331 (and the same tests of displayImprovements)
roleKey(role) ==
    LET lower == toLowerCase(role)
    IN  IF Includes(lower, <<"p", "r", "o", "d", "u", "c", "t">>)
             \/ Includes(lower, <<"p", "m">>)
        THEN "Product Owner"
        ELSE IF Includes(lower, <<"f", "r", "o", "n", "t", "e", "n", "d">>)
                  \/ Includes(lower, <<"u", "i">>)
        THEN "Frontend Developer"
        ELSE IF Includes(lower, <<"d", "e", "v", "o", "p", "s">>)
                  \/ Includes(lower, <<"i", "n", "f", "r", "a", "s", "t", "r",
                                       "u", "c", "t", "u", "r", "e">>)
        THEN "DevOps Engineer"
        ELSE "Backend Developer"

NoSelection == [role |-> <<>>, roleKey |-> ""]

\* the locals of a request that reached line 333
Selection(agent) == [role |-> agent.role, roleKey |-> roleKey(agent.role)]

\* the agents a client may post: any role beside the file and the email
DemoRequests ==
    {[agent EXCEPT !.role = role] : agent \in DemoAgents, role \in Roles}

\* existsSync is false: res.status(404)
DemoImproveNotFound(agent) ==
    /\ program = "demo"
    /\ calls < MaxCalls
    /\ ~files[agent.filePath].exists
    /\ calls' = calls + 1
    /\ response' = [status |-> 404, success |-> FALSE,
                    filePath |-> agent.filePath]
    /\ UNCHANGED <<scoringVars, pipelineVars, demoVars, backendVars>>
    /\ UNCHANGED <<program, files, proc, applied, writes, original,
                   improvedAgents>>

\* read, append the section, write back, mark the agent improved, res.json
DemoImproveOk(agent, weak) ==
    /\ program = "demo"
    /\ calls < MaxCalls
    /\ files[agent.filePath].exists
    /\ calls' = calls + 1
    /\ files' = [files EXCEPT ![agent.filePath] =
                    File(@.content \o improvementSection(weak))]
    /\ writes' = [writes EXCEPT ![agent.filePath] = @ + 1]
    /\ applied' = [applied EXCEPT ![agent.filePath] =
                    [count |-> @.count + 1, last |-> weak,
                     same |-> @.count = 0 \/ (@.same /\ @.last = weak)]]
    /\ improvedAgents' = improvedAgents \cup {agent.email}
    /\ selected' = Selection(agent)
    /\ response' = [status |-> 200, success |-> TRUE,
                    filePath |-> agent.filePath]
    /\ UNCHANGED <<scoringVars, pipelineVars, demoAnalysis, backendVars>>
    /\ UNCHANGED <<program, proc, original>>

\* /api/detect-agents: hasBeenImproved: improvedAgents.has(email)
hasBeenImproved(email) == email \in improvedAgents

\* a variant that marks the agent improved before the write that throws
DemoImproveErrorMarks(agent) ==
    /\ program = "demo"
    /\ calls < MaxCalls
    /\ files[agent.filePath].exists
    /\ calls' = calls + 1
    /\ improvedAgents' = improvedAgents \cup {agent.email}
    /\ \E reached \in BOOLEAN :
          selected' = IF reached THEN Selection(agent) ELSE selected
    /\ response' = [status |-> 500, success |-> FALSE,
                    filePath |-> agent.filePath]
    /\ UNCHANGED <<scoringVars, pipelineVars, demoAnalysis, backendVars>>
    /\ UNCHANGED <<program, files, proc, applied, writes, original>>

\* readFileSync throws before the roleKey is chosen, or writeFileSync after
\* it: the catch answers 500
DemoImproveError(agent) ==
    /\ program = "demo"
    /\ calls < MaxCalls
    /\ files[agent.filePath].exists
    /\ calls' = calls + 1
    /\ \E reached \in BOOLEAN :
          selected' = IF reached THEN Selection(agent) ELSE selected
    /\ response' = [status |-> 500, success |-> FALSE,
                    filePath |-> agent.filePath]
    /\ UNCHANGED <<scoringVars, pipelineVars, demoAnalysis, backendVars>>
    /\ UNCHANGED <<program, files, proc, applied, writes, original,
                   improvedAgents>>

DemoImprove ==
    \E agent \in DemoAgents :
        \/ DemoImproveNotFound(agent)
        \/ \E weak \in DemoWeakLists(NumPlanCats) : DemoImproveOk(agent, weak)
        \/ DemoImproveError(agent)

-----------------------------------------------------------------------------
(* Demo server: POST /api/analyze, the mock performance data *)

\* the values Math.random() takes: its least, and one close to its supremum
Randoms == {Rat(0, 1), Rat(999, 1000)}

\* Math.floor(random * k)
FloorOfTimes(random, k) == (random.n * k) \div random.d

\* a variant that tests isLowest before hasBeenImproved
demoScoreLowestFirst(improved, isLowest, random) ==
    IF isLowest THEN 50 + FloorOfTimes(random, 15)
    ELSE IF improved THEN 85 + FloorOfTimes(random, 10)
    ELSE 75 + FloorOfTimes(random, 20)

\* lines 114-135: the score of one agent
demoScore(improved, isLowest, random) ==
    IF improved THEN 85 + FloorOfTimes(random, 10)
    ELSE IF isLowest THEN 50 + FloorOfTimes(random, 15)
    ELSE 75 + FloorOfTimes(random, 20)

\* lines 109-158: one result; the other fields of a result are drawn apart
\* from the score and are left out
analyzeAgent(agent, isLowest, random) ==
    [email |-> agent.email,
     score |-> demoScore(hasBeenImproved(agent.email), isLowest, random)]

\* the agent lists a client posts to /api/analyze
DemoTeams ==
    LET alice == CHOOSE a \in DemoAgents : a.filePath = "alice-agent.md"
        bob == CHOOSE a \in DemoAgents : a.filePath = "bob-agent.md"
    IN  {<<alice>>, <<alice, bob>>, <<bob, alice>>}

NoDemoAnalysis ==
    [done |-> FALSE, lowestIndex |-> 0, agents |-> <<>>,
     lowestPerformer |-> "", teamAverage |-> 0]

\* [...results].sort((a, b) => a.score - b.score)[0]: the first of the
\* results of least score (the sort is stable)
SortedFirst(results) ==
    results[Min({i \in 1..Len(results) :
                    \A j \in 1..Len(results) :
                        results[i].score <= results[j].score})]

\* POST /api/analyze, with the index drawn as lowestIndex
DemoAnalyze(agents) ==
    /\ program = "demo"
    /\ \E lowestIndex \in 0..(Len(agents) - 1),
          randoms \in [1..Len(agents) -> Randoms] :
          LET results == [i \in 1..Len(agents) |->
                             analyzeAgent(agents[i], i - 1 = lowestIndex,
                                          randoms[i])]
              sum[i \in 0..Len(results)] ==
                  IF i = 0 THEN 0 ELSE sum[i - 1] + results[i].score
          IN  demoAnalysis' =
                  [done |-> TRUE,
                   lowestIndex |-> lowestIndex,
                   agents |-> results,
                   lowestPerformer |-> SortedFirst(results).email,
                   teamAverage |->
                       MathRound(Rat(sum[Len(results)], Len(results)))]
    /\ UNCHANGED <<mutatorVars, scoringVars, pipelineVars, selected,
                   backendVars>>

-----------------------------------------------------------------------------
(* AgentAnalyzer.analyzeTeam and performFullAnalysis *)

Agent(email, m) ==
    [email |-> email, commits |-> m.commits, pullRequests |-> m.pullRequests,
     codeReviews |-> m.codeReviews, bugsIntroduced |-> m.bugsIntroduced,
     techDebtScore |-> m.techDebtScore, velocity |-> m.velocity]

\* { ...agent, health: this.calculateHealthScore(agent) }
WithHealth(a) ==
    [email |-> a.email, commits |-> a.commits, pullRequests |-> a.pullRequests,
     codeReviews |-> a.codeReviews, bugsIntroduced |-> a.bugsIntroduced,
     techDebtScore |-> a.techDebtScore, velocity |-> a.velocity,
     health |-> calculateHealthScore(a, DefaultThresholds)]

\* a variant that puts an agent before the agents of the same overall score
InsertBeforeEqual(sorted, x) ==
    LET k == Cardinality({i \in 1..Len(sorted) :
                             sorted[i].health.overall < x.health.overall})
    IN  SubSeq(sorted, 1, k) \o <<x>> \o SubSeq(sorted, k + 1, Len(sorted))

\* Array.prototype.sort is stable: with (a, b) => a.health.overall -
\* b.health.overall an element stays behind every earlier element that does
\* not compare greater
InsertSorted(sorted, x) ==
    LET k == Cardinality({i \in 1..Len(sorted) :
                             sorted[i].health.overall <= x.health.overall})
    IN  SubSeq(sorted, 1, k) \o <<x>> \o SubSeq(sorted, k + 1, Len(sorted))

RECURSIVE sortByOverall(_)
sortByOverall(analyzed) ==
    IF analyzed = <<>> THEN <<>>
    ELSE InsertSorted(sortByOverall(SubSeq(analyzed, 1, Len(analyzed) - 1)),
                      analyzed[Len(analyzed)])

RECURSIVE SumOverall(_)
SumOverall(analyzed) ==
    IF analyzed = <<>> THEN 0
    ELSE analyzed[1].health.overall + SumOverall(Tail(analyzed))

\* analyzed.filter(a => a.health.status === status)
FilterStatus(analyzed, status) ==
    SelectSeq(analyzed, LAMBDA a : a.health.status = status)

NoAnalysis == [threw |-> FALSE, error |-> "", teamSize |-> 0 - 1]

\* reading a property of undefined throws a TypeError
Thrown(error) == [threw |-> TRUE, error |-> error, teamSize |-> 0 - 1]

TeamAnalysis(agents, analyzed) ==
    [threw |-> FALSE,
     error |-> "",
     teamSize |-> Len(agents),
     teamAverageScore |->
         MathRound(Rat(SumOverall(analyzed), Len(analyzed))),
     lowestPerformer |->
         [email |-> analyzed[1].email,
          score |-> analyzed[1].health.overall,
          status |-> analyzed[1].health.status,
          breakdown |-> analyzed[1].health.breakdown],
     highestPerformer |->
         [email |-> analyzed[Len(analyzed)].email,
          score |-> analyzed[Len(analyzed)].health.overall],
     criticalAgents |-> FilterStatus(analyzed, "critical"),
     warningAgents |-> FilterStatus(analyzed, "warning"),
     healthyAgents |-> FilterStatus(analyzed, "healthy"),
     allAgents |-> analyzed]

\* lines 291-328: with no agent analyzed[0] is undefined and line 312 throws
analyzeTeam(agents) ==
    LET analyzed ==
            sortByOverall([i \in 1..Len(agents) |-> WithHealth(agents[i])])
    IN  IF analyzed = <<>> THEN Thrown("TypeError")
        ELSE TeamAnalysis(agents, analyzed)

\* AgentAnalyzer.generateRecommendations: one push per cause
analyzerRecommendations(agent, rootCauses) ==
    [i \in 1..Len(rootCauses) |->
        [priority |-> IF rootCauses[i].category = "productivity" THEN "high"
                      ELSE IF rootCauses[i].category = "quality"
                           THEN "critical" ELSE "medium"]]

\* lines 444-461
performFullAnalysis(agents) ==
    LET teamAnalysis == analyzeTeam(agents)
    IN  IF teamAnalysis.threw
        THEN [threw |-> TRUE, error |-> teamAnalysis.error,
              analysis |-> teamAnalysis, detailedAnalysis |-> <<>>]
        ELSE LET lowestAgent == teamAnalysis.allAgents[1]
                 rootCauses == identifyRootCauses(lowestAgent)
             IN  [threw |-> FALSE,
                  error |-> "",
                  analysis |-> teamAnalysis,
                  detailedAnalysis |->
                      [email |-> lowestAgent.email,
                       rootCauses |-> rootCauses,
                       recommendations |->
                           analyzerRecommendations(lowestAgent, rootCauses)]]

-----------------------------------------------------------------------------
(* index.js main *)

AliceEmail == "alice@todo-ai-agents.demo"

BobEmail == "bob@todo-ai-agents.demo"

\* an agent of another organisation with the same mailbox name
AliceOtherEmail == "alice@example.org"

\* email.split('@')[0]: what precedes the first '@', the whole if there is
\* none; an email is taken as the pieces around its '@' characters
LocalPart(email) ==
    LET pieces ==
            IF email = AliceEmail
            THEN <<"alice", "@", "todo-ai-agents.demo">>
            ELSE IF email = BobEmail
            THEN <<"bob", "@", "todo-ai-agents.demo">>
            ELSE IF email = AliceOtherEmail
            THEN <<"alice", "@", "example.org">>
            ELSE <<>>
        ats == {i \in 1..Len(pieces) : pieces[i] = "@"}
        first == IF ats = {} THEN Len(pieces) + 1 ELSE Min(ats)
        F[i \in 0..Len(pieces)] ==
            IF i = 0 THEN "" ELSE F[i - 1] \o pieces[i]
    IN  F[first - 1]

\* `.claude/agents/${agent.email.split('@')[0]}-agent.md`
FilePathOf(email) == LocalPart(email) \o "-agent.md"

\* the agents a scrape can return: the two scenarios of the design, agents
\* of equal overall score, an agent with no sub-score below 60 and an overall
\* below 80, a healthy agent with one low sub-score, an agent whose name and
\* email cell is empty, an agent with a negative counter, and an agent whose
\* email differs from another's only after the '@'
AgentPool ==
    {Agent(AliceEmail, MetricsRecord(3, 1, 0, 4, 70, 2)),
     Agent(AliceEmail, MetricsRecord(1, 2, 2, 0, 0, 6)),
     Agent(BobEmail, MetricsRecord(14, 6, 6, 0, 5, 9)),
     Agent(BobEmail, MetricsRecord(1, 2, 2, 0, 0, 6)),
     Agent(BobEmail, MetricsRecord(5, 2, 0, 0, 0, 10)),
     Agent("", MetricsRecord(3, 1, 0, 4, 70, 2)),
     Agent(BobEmail, MetricsRecord(0 - 1, 0, 3, 0, 0, 10)),
     Agent(AliceOtherEmail, MetricsRecord(14, 6, 6, 0, 5, 9))}

Teams == SeqsUpTo(AgentPool, MaxTeam)

\* scrapeResult.agents.find(a => a.email === email): the first such agent
Find(agents, email) ==
    agents[Min({i \in 1..Len(agents) : agents[i].email = email})]

NoPlan == [generated |-> FALSE, rootCauses |-> <<>>]

\* lines 238-239: the numbers printed in the two score lines of the block,
\* from agent.health_score || 0 (the records of the scraper carry no
\* health_score; Math.round of an integer is that integer)
ScoreLines(agent) ==
    LET healthScoreOrZero ==
            IF "health_score" \in DOMAIN agent THEN agent.health_score ELSE 0
    IN  [current |-> healthScoreOrZero, target |-> healthScoreOrZero + 25]

\* lines 24-41
generateImprovements(agent, analysis) ==
    LET rootCauses == analyzeRootCauses(agent, analysis)
        recommendations == generateRecommendations(rootCauses, agent)
    IN  [generated |-> TRUE,
         email |-> agent.email,
         currentScore |-> analysis.lowestPerformer.score,
         targetScore |-> IF analysis.lowestPerformer.score + 25 < 85
                         THEN analysis.lowestPerformer.score + 25 ELSE 85,
         rootCauses |-> rootCauses,
         recommendations |-> recommendations,
         agentDefinitionUpdates |->
             [filePath |-> FilePathOf(agent.email),
              scoreLines |-> ScoreLines(agent),
              instructionsToAdd |->
                  instructionsToAdd(CategoriesOf(rootCauses))]]

NoRun == [pc |-> "none"]

NoReturn == [returned |-> FALSE, success |-> FALSE, error |-> ""]

StartRun(autoApply) ==
    [pc |-> "scrape", autoApply |-> autoApply, agents |-> <<>>,
     analysis |-> NoAnalysis, detailedAnalysis |-> <<>>,
     improvements |-> NoPlan, result |-> NoReturn]

\* lines 17-24: the scrape succeeds with the agents of the dashboard
ScrapeOk(agents) ==
    /\ run.pc = "scrape"
    /\ run' = [run EXCEPT !.pc = "analyze", !.agents = agents]
    /\ UNCHANGED <<mutatorVars, scoringVars, recs, demoVars, backendVars>>

\* lines 20-22 and 85-89: the scrape fails, main throws and catches
ScrapeFail ==
    /\ run.pc = "scrape"
    /\ run' = [run EXCEPT
                 !.pc = "done",
                 !.result = [returned |-> TRUE, success |-> FALSE,
                             error |-> "Failed to scrape TechDebtGPT"]]
    /\ UNCHANGED <<mutatorVars, scoringVars, recs, demoVars, backendVars>>

\* lines 28-36 and 79-84: the analysis, then the test on the critical and
\* warning agents
PerformFullAnalysis ==
    /\ run.pc = "analyze"
    /\ LET full == performFullAnalysis(run.agents)
       IN  IF full.threw
           THEN run' = [run EXCEPT
                          !.pc = "done",
                          !.analysis = full.analysis,
                          !.result = [returned |-> TRUE, success |-> FALSE,
                                      error |-> full.error]]
           ELSE IF Len(full.analysis.criticalAgents) > 0
                     \/ Len(full.analysis.warningAgents) > 0
           THEN run' = [run EXCEPT
                          !.pc = "improve",
                          !.analysis = full.analysis,
                          !.detailedAnalysis = full.detailedAnalysis]
           ELSE run' = [run EXCEPT
                          !.pc = "done",
                          !.analysis = full.analysis,
                          !.detailedAnalysis = full.detailedAnalysis,
                          !.result = [returned |-> TRUE, success |-> TRUE,
                                      error |-> ""]]
    /\ UNCHANGED <<mutatorVars, scoringVars, recs, demoVars, backendVars>>

\* lines 39-56 and 65-67: the plan for the lowest performer, then the test
\* of AUTO_APPLY
GenerateImprovements ==
    /\ run.pc = "improve"
    /\ LET lowestAgent == Find(run.agents, run.analysis.lowestPerformer.email)
           improvements == generateImprovements(lowestAgent, run.analysis)
       IN  IF run.autoApply
           THEN run' = [run EXCEPT !.pc = "apply",
                                   !.improvements = improvements]
           ELSE run' = [run EXCEPT
                          !.pc = "done",
                          !.improvements = improvements,
                          !.result = [returned |-> TRUE, success |-> TRUE,
                                      error |-> ""]]
    /\ UNCHANGED <<mutatorVars, scoringVars, recs, demoVars, backendVars>>

\* line 58: main enters applyImprovements with the plan
MainApply ==
    /\ run.pc = "apply"
    /\ proc["main"] = IdleProc
    /\ Call("main", run.improvements.agentDefinitionUpdates.filePath,
            CategoriesOf(run.improvements.rootCauses))

\* lines 60-64 and 83-84: applyImprovements has returned
MainApplied ==
    /\ run.pc = "apply"
    /\ proc["main"].pc = "idle"
    /\ proc["main"].result.returned
    /\ run' = [run EXCEPT
                 !.pc = "done",
                 !.result = [returned |-> TRUE, success |-> TRUE,
                             error |-> ""]]
    /\ UNCHANGED <<mutatorVars, scoringVars, recs, demoVars, backendVars>>

-----------------------------------------------------------------------------
(* Backend server: the database and the requests *)

EmptyDb ==
    [agents |-> <<>>, metrics |-> <<>>, improvements |-> <<>>, analyses |-> 0]

NoHttp == [status |-> 0, success |-> FALSE, applied |-> NoResult]

\* Database.saveImprovement: the row it inserts
saveImprovement(improvements, improvement) ==
    Append(improvements,
           [type |-> improvement.type,
            applied |-> IF improvement.applied THEN 1 ELSE 0,
            result |-> improvement.result])

\* server.js lines 178-196: a request with auto_apply up to the return of
\* applyImprovements; it answers before another request takes its place
PostImprove(p) ==
    /\ ~proc[p].result.returned
    /\ applyImprovements(p)

\* server.js lines 195-209: applyImprovements has returned, the record is
\* saved and the response sent; the request is over
ImproveSaved(p) ==
    /\ program = "backend"
    /\ proc[p].pc = "idle"
    /\ proc[p].result.returned
    /\ db' = [db EXCEPT !.improvements =
                 saveImprovement(@, [type |-> "auto", applied |-> TRUE,
                                     result |-> proc[p].result])]
    /\ http' = [http EXCEPT ![p] =
                   [status |-> 200, success |-> TRUE,
                    applied |-> proc[p].result]]
    /\ proc' = [proc EXCEPT ![p] = IdleProc]
    /\ UNCHANGED <<scoringVars, pipelineVars, demoVars, ingest>>
    /\ UNCHANGED <<program, files, calls, applied, writes, original,
                   improvedAgents, response>>

\* server.js lines 198 and 220-222: saveImprovement rejects, the catch
\* answers 500
ImproveSaveFails(p) ==
    /\ program = "backend"
    /\ proc[p].pc = "idle"
    /\ proc[p].result.returned
    /\ http' = [http EXCEPT ![p] =
                   [status |-> 500, success |-> FALSE, applied |-> NoResult]]
    /\ proc' = [proc EXCEPT ![p] = IdleProc]
    /\ UNCHANGED <<scoringVars, pipelineVars, demoVars, db, ingest>>
    /\ UNCHANGED <<program, files, calls, applied, writes, original,
                   improvedAgents, response>>

-----------------------------------------------------------------------------
(* Backend server: metrics ingestion, one action per await *)

IngestRuns == {"run1", "run2"}

\* result.agents: the emails of the scraped agents, in order
IngestLists ==
    {<<AliceEmail>>, <<AliceEmail, BobEmail>>, <<BobEmail, AliceEmail>>}

UniqueViolation == "SQLITE_CONSTRAINT: UNIQUE constraint failed"

IdleRun ==
    [pc |-> "idle", kind |-> "", agents |-> <<>>, i |-> 0, agent |-> 0,
     status |-> 0, error |-> ""]

\* SELECT * FROM agents WHERE email = ? AND repository_id = ?: the id of the
\* row, 0 if there is none
findAgentByEmail(agents, email) ==
    LET ids == {k \in 1..Len(agents) : agents[k].email = email}
    IN  IF ids = {} THEN 0 ELSE Min(ids)

\* a run is the handler of POST /api/scrape or the task the webhook starts;
\* the repository is found and the scrape succeeds: the loop starts
StartIngest(r, kind, agents) ==
    /\ program = "backend"
    /\ ingest[r].pc = "idle"
    /\ ingest' = [ingest EXCEPT ![r] =
                     [IdleRun EXCEPT !.pc = "find", !.kind = kind,
                                     !.agents = agents, !.i = 1]]
    /\ UNCHANGED <<mutatorVars, scoringVars, pipelineVars, demoVars, db, http>>

\* the scrape fails: the request answers 500, the webhook task does nothing
IngestScrapeFails(r, kind) ==
    /\ program = "backend"
    /\ ingest[r].pc = "idle"
    /\ ingest' = [ingest EXCEPT ![r] =
                     [IdleRun EXCEPT !.pc = "done", !.kind = kind,
                                     !.status = IF kind = "scrape"
                                                THEN 500 ELSE 0,
                                     !.error = "scrape failed"]]
    /\ UNCHANGED <<mutatorVars, scoringVars, pipelineVars, demoVars, db, http>>

\* await db.findAgentByEmail(agentData.email, repo_id) resolves
FindAgentByEmail(r) ==
    /\ ingest[r].pc = "find"
    /\ LET found == findAgentByEmail(db.agents,
                                     ingest[r].agents[ingest[r].i])
       IN  ingest' = [ingest EXCEPT
                        ![r].agent = found,
                        ![r].pc = IF found = 0 THEN "add" ELSE "save"]
    /\ UNCHANGED <<mutatorVars, scoringVars, pipelineVars, demoVars, db, http>>

\* await db.addAgent(...): the INSERT; UNIQUE(repository_id, email) makes it
\* reject when the row exists, and the rejection ends the run (the catch of
\* /api/scrape answers 500; the webhook task has no catch)
AddAgent(r) ==
    /\ ingest[r].pc = "add"
    /\ LET email == ingest[r].agents[ingest[r].i]
       IN  IF findAgentByEmail(db.agents, email) # 0
           THEN /\ ingest' = [ingest EXCEPT
                                ![r].pc = "done",
                                ![r].status = IF ingest[r].kind = "scrape"
                                              THEN 500 ELSE 0,
                                ![r].error = UniqueViolation]
                /\ db' = db
           ELSE /\ db' = [db EXCEPT !.agents = Append(@, [email |-> email])]
                /\ ingest' = [ingest EXCEPT ![r].agent = Len(db.agents) + 1,
                                            ![r].pc = "save"]
    /\ UNCHANGED <<mutatorVars, scoringVars, pipelineVars, demoVars, http>>

\* await db.saveAgentMetrics(agent.id, ...) resolves; after the last agent
\* the request answers success, the webhook task saves its analysis
SaveAgentMetrics(r) ==
    /\ ingest[r].pc = "save"
    /\ LET last == ingest[r].i = Len(ingest[r].agents)
       IN  /\ db' = [db EXCEPT
                       !.metrics = Append(@, [agent_id |-> ingest[r].agent,
                                              run |-> r]),
                       !.analyses = IF last /\ ingest[r].kind = "webhook"
                                    THEN @ + 1 ELSE @]
           /\ ingest' = [ingest EXCEPT
                           ![r].i = @ + 1,
                           ![r].pc = IF last THEN "done" ELSE "find",
                           ![r].status = IF last /\ ingest[r].kind = "scrape"
                                         THEN 200 ELSE @]
    /\ UNCHANGED <<mutatorVars, scoringVars, pipelineVars, demoVars, http>>

-----------------------------------------------------------------------------
(* Specifications *)

\* one agent definition, present with any content or absent; the other absent
InitFiles ==
    \E d \in {Missing} \cup {File(c) : c \in Docs} :
        files = [path \in Paths |->
                    IF path = "alice-agent.md" THEN d ELSE Missing]

InitCommon ==
    /\ proc = [p \in Callers |-> IdleProc]
    /\ calls = 0
    /\ applied = [path \in Paths |-> NotApplied]
    /\ writes = [path \in Paths |-> 0]
    /\ original = files
    /\ improvedAgents = {}
    /\ response = NoResponse
    /\ metrics = NoAgent
    /\ health = NoHealth
    /\ previous = NoPrevious
    /\ diagnosis = NoDiagnosis
    /\ recs = NoRecs
    /\ run = NoRun
    /\ selected = NoSelection
    /\ demoAnalysis = NoDemoAnalysis
    /\ db = EmptyDb
    /\ http = [p \in Callers |-> NoHttp]
    /\ ingest = [r \in IngestRuns |-> IdleRun]

\* a run of the pipeline (index.js: one caller, each call awaited) or of the
\* demo server, on an agents directory
Init ==
    /\ program \in {"pipeline", "demo"}
    /\ InitFiles
    /\ InitCommon

Next ==
    \/ \E p \in Callers : applyImprovements(p)
    \/ DemoImprove

Spec == Init /\ [][Next]_vars

\* the backend server: two /api/improve requests in flight at once
InitServer ==
    /\ program = "backend"
    /\ \E c \in DocsOf(1) :
         files = [path \in Paths |->
                    IF path = "alice-agent.md" THEN File(c)
                    ELSE File(<<"text">>)]
    /\ InitCommon

NextServer == \E p \in Callers : applyImprovements(p)

SpecServer == InitServer /\ [][NextServer]_vars

\* the analyzer scoring one metrics record after another
InitScore ==
    /\ program = "analyzer"
    /\ files = [path \in Paths |-> Missing]
    /\ InitCommon

ScoreRecord == health.status = "none" /\ \E a \in Records : Score(a)

NextScore ==
    \/ ScoreRecord
    \/ Diagnose
    \/ NextRecord

SpecScore == InitScore /\ [][NextScore]_vars

\* the improver turning lists of root causes into recommendations and a block
InitPlan ==
    /\ program = "improver"
    /\ files = [path \in Paths |-> Missing]
    /\ InitCommon

NextPlan ==
    \/ \E rootCauses \in RootCauseLists : GenerateRecommendations(rootCauses)
    \/ GenerateAgentDefinitionUpdates

SpecPlan == InitPlan /\ [][NextPlan]_vars

\* one run of main, with AUTO_APPLY set or not, on an agents directory
InitPipeline ==
    /\ program = "pipeline"
    /\ \E d \in {Missing, File(<<"text">>)} :
         files = [path \in Paths |->
                    IF path = "alice-agent.md" THEN d
                    ELSE IF path = "bob-agent.md" THEN File(<<"text">>)
                    ELSE Missing]
    /\ proc = [p \in Callers |-> IdleProc]
    /\ calls = 0
    /\ applied = [path \in Paths |-> NotApplied]
    /\ writes = [path \in Paths |-> 0]
    /\ original = files
    /\ improvedAgents = {}
    /\ response = NoResponse
    /\ metrics = NoAgent
    /\ health = NoHealth
    /\ previous = NoPrevious
    /\ diagnosis = NoDiagnosis
    /\ recs = NoRecs
    /\ selected = NoSelection
    /\ demoAnalysis = NoDemoAnalysis
    /\ db = EmptyDb
    /\ http = [p \in Callers |-> NoHttp]
    /\ ingest = [r \in IngestRuns |-> IdleRun]
    /\ \E autoApply \in BOOLEAN : run = StartRun(autoApply)

NextPipeline ==
    \/ \E agents \in Teams : ScrapeOk(agents)
    \/ ScrapeFail
    \/ PerformFullAnalysis
    \/ GenerateImprovements
    \/ MainApply
    \/ ReadFileOk("main")
    \/ ReadFileFail("main")
    \/ WriteFileOk("main")
    \/ WriteFileFail("main")
    \/ MainApplied

SpecPipeline == InitPipeline /\ [][NextPipeline]_vars

\* the demo server: requests for any agent with any role, and analyses
InitDemo ==
    /\ program = "demo"
    /\ files = [path \in Paths |->
                  IF path = "alice-agent.md" THEN File(<<"text">>)
                  ELSE Missing]
    /\ InitCommon

NextDemo ==
    \/ \E agent \in DemoRequests : DemoImproveNotFound(agent)
    \/ \E agent \in DemoRequests, weak \in DemoWeakLists(NumPlanCats) :
          DemoImproveOk(agent, weak)
    \/ \E agent \in DemoRequests : DemoImproveError(agent)
    \/ \E agents \in DemoTeams : DemoAnalyze(agents)

SpecDemo == InitDemo /\ [][NextDemo]_vars

\* the backend server: two /api/improve requests with auto_apply, each up
\* to its response
NextHistory ==
    \E p \in Callers :
        \/ PostImprove(p)
        \/ ImproveSaved(p)
        \/ ImproveSaveFails(p)

SpecHistory == InitServer /\ [][NextHistory]_vars

\* the backend server: two ingestion runs in flight at once
InitIngest ==
    /\ program = "backend"
    /\ files = [path \in Paths |-> Missing]
    /\ InitCommon

NextIngest ==
    \E r \in IngestRuns :
        \/ \E kind \in {"scrape", "webhook"}, agents \in IngestLists :
              StartIngest(r, kind, agents)
        \/ \E kind \in {"scrape", "webhook"} : IngestScrapeFails(r, kind)
        \/ FindAgentByEmail(r)
        \/ AddAgent(r)
        \/ SaveAgentMetrics(r)

SpecIngest == InitIngest /\ [][NextIngest]_vars

-----------------------------------------------------------------------------
(* Document Mutator: properties *)

Sections(content) == Cardinality(Occurrences(content, improvementMarker))

\* the callers whose last call has returned success
Succeeded == {p \in Callers : proc[p].result.returned /\ proc[p].result.success}

\* C1: a document that had no '## Performance Improvement Plan' marker, after
\* applyImprovements succeeded on it two or more times in sequence with the
\* same plan, holds exactly one such section.
C1_ApplyTwiceOneSection ==
    \A path \in Paths :
        ( /\ program = "pipeline"
          /\ original[path].exists
          /\ ~Includes(original[path].content, improvementMarker)
          /\ applied[path].count >= 2
          /\ applied[path].same )
        => Sections(files[path].content) = 1

C1_Witness ==
    /\ program = "pipeline"
    /\ original["alice-agent.md"].exists
    /\ original["alice-agent.md"].content # <<>>
    /\ ~Includes(original["alice-agent.md"].content, improvementMarker)
    /\ applied["alice-agent.md"].count = 2
    /\ applied["alice-agent.md"].same
    /\ applied["alice-agent.md"].last # <<>>
    /\ proc["main"].pc = "idle"
    /\ Sections(files["alice-agent.md"].content) = 1

DemoSections(content) == Cardinality(Occurrences(content, demoMarker))

\* C2: after any number n >= 1 of successful demo /api/improve calls for an
\* agent file, the file holds exactly one '## Performance Improvements'
\* section.
C2_DemoReapplyOneSection ==
    \A path \in Paths :
        (program = "demo" /\ applied[path].count >= 1)
        => DemoSections(files[path].content) = 1

\* C3: no two applyImprovements calls on the same path interleave: while one
\* call is between its read and its write of a path, no other call has read
\* the path without having written it.
C3_MutationsSerialized ==
    \A p, q \in Callers :
        (p # q /\ proc[p].pc = "write" /\ proc[q].pc = "write")
        => proc[p].filePath # proc[q].filePath

\* C4: a call whose document was written by another call between its read and
\* its write does not return success having overwritten that write.
C4_ConflictSurfaced ==
    \A p \in Succeeded : ~proc[p].overwrote

\* the text before the first marker and the text from the heading that ends
\* the first marked section onward
BeforeMarker(content) == SubSeq(content, 1, FindMarker(content, 1) - 1)

FromNextHeading(content) ==
    SubSeq(content,
           SectionEnd(content, FindMarker(content, 1) + Len(improvementMarker)),
           Len(content))

Suffix(content, n) == SubSeq(content, Len(content) - n + 1, Len(content))

\* C5: a successful applyImprovements changes nothing outside the improvement
\* section: without the marker the written content is the original, a blank
\* line separator and the block; with the marker the text before it and the
\* text from the next top-level heading onward are the same before and after.
C5_OnlySectionChanged ==
    \A p \in Succeeded :
        LET before == proc[p].read
            after == proc[p].content
            block == proc[p].result.changes
        IN  IF ~Includes(before, improvementMarker)
            THEN after = before \o <<NL, NL>> \o block
            ELSE /\ Len(after) >= Len(BeforeMarker(before))
                                    + Len(FromNextHeading(before))
                 /\ SubSeq(after, 1, Len(BeforeMarker(before)))
                        = BeforeMarker(before)
                 /\ Suffix(after, Len(FromNextHeading(before)))
                        = FromNextHeading(before)

\* C6: applying a plan to a document that does not exist returns a failure
\* (success false with ENOENT from applyImprovements, 404 from the demo
\* server), the path still does not exist and no write was issued on it.
C6_MissingDocumentNotCreated ==
    /\ \A p \in Callers :
          (proc[p].result.returned /\ ~original[proc[p].filePath].exists)
          => /\ ~proc[p].result.success
             /\ proc[p].result.error = "ENOENT"
             /\ ~files[proc[p].filePath].exists
             /\ writes[proc[p].filePath] = 0
    /\ (response.status # 0 /\ ~original[response.filePath].exists)
          => /\ response.status = 404
             /\ ~response.success
             /\ ~files[response.filePath].exists
             /\ writes[response.filePath] = 0
    /\ \A path \in Paths : ~original[path].exists => ~files[path].exists

C6_Witness ==
    /\ \/ /\ proc["main"].result.returned
          /\ proc["main"].filePath = "bob-agent.md"
          /\ proc["main"].causes # <<>>
          /\ ~files["bob-agent.md"].exists
       \/ /\ response.status = 404
          /\ response.filePath = "bob-agent.md"
          /\ ~files["bob-agent.md"].exists

\* a tagged result: success with filePath and changes, or failure with a
\* message
Tagged(result) ==
    \/ result.success /\ result.filePath # "" /\ result.changes # <<>>
    \/ ~result.success /\ result.error # ""

\* C7: applyImprovements never throws: whatever the read and the write do, the
\* call ends in a tagged result, and the caller is back at the point where it
\* can make its next call.
C7_NeverThrows ==
    \A p \in Callers :
        /\ proc[p].pc \in {"idle", "read", "write"}
        /\ proc[p].pc = "idle" =>
              \/ proc[p].result = NoResult /\ proc[p].filePath = ""
              \/ proc[p].result.returned /\ Tagged(proc[p].result)

C7_Witness ==
    /\ proc["main"].pc = "idle"
    /\ proc["main"].result.returned
    /\ ~proc["main"].result.success
    /\ proc["main"].result.error = "EACCES"
    /\ proc["main"].content # <<>>
    /\ calls < MaxCalls

-----------------------------------------------------------------------------
(* Scoring Engine: properties *)

InRange(x) == 0 <= x /\ x <= 100

\* C8: for every metrics record with non-negative counters, the four
\* sub-scores and the overall score returned by calculateHealthScore lie in
\* [0,100].
C8_ScoresInRange ==
    health.status # "none" =>
        /\ \A key \in ScoreKeys : InRange(health.breakdown[key])
        /\ InRange(health.overall)

\* a record whose quality average is negative before the floor and whose
\* other counters exceed their caps
C8_Witness ==
    /\ health.status # "none"
    /\ metrics.bugsIntroduced > 20
    /\ metrics.techDebtScore > 100
    /\ health.breakdown.quality = 0
    /\ health.breakdown.productivity = 100
    /\ health.breakdown.collaboration = 100
    /\ health.breakdown.reliability = 100

StatusOfOverall(overall) ==
    IF overall >= 80 THEN "healthy"
    ELSE IF overall >= 60 THEN "warning"
    ELSE "critical"

\* C9: in every HealthScore the status agrees with the overall value reported
\* beside it: critical iff overall < 60, warning iff 60 <= overall < 80,
\* healthy iff overall >= 80.
C9_StatusAgreesWithOverall ==
    health.status # "none" => health.status = StatusOfOverall(health.overall)

Rank(status) ==
    IF status = "critical" THEN 1 ELSE IF status = "warning" THEN 2 ELSE 3

\* C10: for any two HealthScores a and b returned by calculateHealthScore,
\* a.overall <= b.overall implies rank(a.status) <= rank(b.status).
C10_StatusMonotonic ==
    (health.status # "none" /\ previous.status # "none") =>
        /\ previous.overall <= health.overall
              => Rank(previous.status) <= Rank(health.status)
        /\ health.overall <= previous.overall
              => Rank(health.status) <= Rank(previous.status)

\* the exact weighted sum of the sub-scores before any Math.round
ExactOverall(a, thresholds) ==
    LET raw == UnroundedScores(a, thresholds)
    IN  Rat(30 * raw.productivity.n * raw.quality.d * raw.collaboration.d
                * raw.reliability.d
              + 35 * raw.quality.n * raw.productivity.d * raw.collaboration.d
                  * raw.reliability.d
              + 20 * raw.collaboration.n * raw.productivity.d * raw.quality.d
                  * raw.reliability.d
              + 15 * raw.reliability.n * raw.productivity.d * raw.quality.d
                  * raw.collaboration.d,
            100 * raw.productivity.d * raw.quality.d * raw.collaboration.d
                * raw.reliability.d)

\* C11: the reported overall is the weighted sum 0.30, 0.35, 0.20, 0.15 of the
\* unrounded sub-scores, rounded once to the nearest integer.
C11_OverallRoundedOnce ==
    health.status # "none" =>
        health.overall = MathRound(ExactOverall(metrics, DefaultThresholds))

-----------------------------------------------------------------------------
(* Root-Cause Diagnoser: properties *)

CategoryOf ==
    [productivity |-> "Productivity", quality |-> "Quality",
     collaboration |-> "Collaboration", reliability |-> "Reliability"]

LowerCategoryOf ==
    [productivity |-> "productivity", quality |-> "quality",
     collaboration |-> "collaboration", reliability |-> "reliability"]

CausesFor(causes, category) ==
    {i \in 1..Len(causes) : causes[i].category = category}

Triggered(breakdown) == {key \in ScoreKeys : breakdown[key] < 60}

\* C12: both diagnosers return one cause for each category whose sub-score is
\* below 60 and nothing else: a sub-score of 60 or more gives no cause, and no
\* sub-score below 60 gives the empty list.
C12_CauseIffBelow60 ==
    diagnosis.done =>
        /\ \A key \in ScoreKeys :
              LET expected == IF health.breakdown[key] < 60 THEN 1 ELSE 0
              IN  /\ Cardinality(CausesFor(diagnosis.rootCauses,
                                           CategoryOf[key])) = expected
                  /\ Cardinality(CausesFor(diagnosis.identified,
                                           LowerCategoryOf[key])) = expected
        /\ Len(diagnosis.rootCauses) = Cardinality(Triggered(health.breakdown))
        /\ Len(diagnosis.identified) = Cardinality(Triggered(health.breakdown))

\* a sub-score of exactly 60 beside one below 60
C12_Witness ==
    /\ diagnosis.done
    /\ health.breakdown.productivity = 60
    /\ health.breakdown.reliability < 60
    /\ CausesFor(diagnosis.rootCauses, "Productivity") = {}
    /\ CausesFor(diagnosis.rootCauses, "Reliability") # {}
    /\ CausesFor(diagnosis.identified, "reliability") # {}

CategoryIndex(category) ==
    CHOOSE i \in 1..Len(Categories) : Categories[i] = category

\* C17: the categories of the causes returned by analyzeRootCauses are in the
\* order Productivity, Quality, Collaboration, Reliability, whatever their
\* severities and sub-scores.
C17_FixedCategoryOrder ==
    diagnosis.done =>
        \A i, j \in 1..Len(diagnosis.rootCauses) :
            i < j => CategoryIndex(diagnosis.rootCauses[i].category)
                        < CategoryIndex(diagnosis.rootCauses[j].category)

\* the critical Quality cause comes after the high Productivity cause, and a
\* lower sub-score after a higher one
C17_Witness ==
    /\ diagnosis.done
    /\ Len(diagnosis.rootCauses) >= 3
    /\ diagnosis.rootCauses[1].category = "Productivity"
    /\ diagnosis.rootCauses[2].category = "Quality"
    /\ diagnosis.rootCauses[1].score > diagnosis.rootCauses[3].score

-----------------------------------------------------------------------------
(* Recommendation Generator: properties *)

\* C18: generateRecommendations returns one Recommendation per RootCause of
\* its input, in the same order: the same length, the i-th recommendation of
\* the category of the i-th cause; the empty list gives the empty list.
C18_OneRecommendationPerCause ==
    recs.pc # "idle" =>
        /\ Len(recs.recommendations) = Len(recs.rootCauses)
        /\ \A i \in 1..Len(recs.rootCauses) :
              recs.recommendations[i].category = recs.rootCauses[i].category

\* causes out of the fixed category order, one category twice
C18_Witness ==
    /\ recs.pc = "recommended"
    /\ Len(recs.rootCauses) = 3
    /\ recs.rootCauses[1].category = "Reliability"
    /\ recs.rootCauses[2].category = "Productivity"
    /\ recs.rootCauses[3].category = "Reliability"
    /\ Len(recs.recommendations) = 3

-----------------------------------------------------------------------------
(* The pipeline and the Team Ranker: properties *)

\* main has an analysis of at least one scored agent
Analyzed == run.pc # "none" /\ run.analysis.teamSize > 0

\* applyImprovements was entered by main
Invoked == proc["main"] # IdleProc

\* C13: when the lowest performer has no sub-score below 60, main generates
\* no improvement plan, never enters applyImprovements and leaves the agents
\* directory as it was, whatever the status of the agent.
C13_NoCausesNoAction ==
    (Analyzed /\ Triggered(run.analysis.lowestPerformer.breakdown) = {})
        => /\ ~run.improvements.generated
           /\ ~Invoked
           /\ files = original

DocumentUpdated ==
    proc["main"].result.returned /\ proc["main"].result.success

DocumentUpdateFailed ==
    proc["main"].result.returned /\ ~proc["main"].result.success

HealthyNoAction ==
    /\ Triggered(run.analysis.lowestPerformer.breakdown) = {}
    /\ ~run.improvements.generated
    /\ ~Invoked

\* C14: a run of main that scored at least one agent ends in one of
\* document-updated, document-update-failed and healthy-no-action: it does
\* not end with a plan that was generated and neither applied nor reported
\* failed.
C14_RunEndsInTerminalState ==
    (run.pc = "done" /\ Analyzed)
        => \/ DocumentUpdated
           \/ DocumentUpdateFailed
           \/ HealthyNoAction

\* the input of analyzeTeam with the score of each agent, in input order
Scored(agents) == [i \in 1..Len(agents) |-> WithHealth(agents[i])]

WithOverall(analyzed, overall) ==
    SelectSeq(analyzed, LAMBDA a : a.health.overall = overall)

\* C15: allAgents holds the scored input agents in ascending order of overall
\* score, the agents of one overall score in their input order; the lowest
\* performer is its first element and the highest performer its last.
C15_RankerSortedAndStable ==
    Analyzed =>
        LET sorted == run.analysis.allAgents
            input == Scored(run.agents)
        IN  /\ Len(sorted) = Len(input)
            /\ \A i, j \in 1..Len(sorted) :
                  i < j => sorted[i].health.overall <= sorted[j].health.overall
            /\ \A i \in 1..Len(input) :
                  WithOverall(sorted, input[i].health.overall)
                      = WithOverall(input, input[i].health.overall)
            /\ run.analysis.lowestPerformer.email = sorted[1].email
            /\ run.analysis.lowestPerformer.score = sorted[1].health.overall
            /\ run.analysis.highestPerformer.email = sorted[Len(sorted)].email
            /\ run.analysis.highestPerformer.score
                  = sorted[Len(sorted)].health.overall

\* two agents of one overall score, given in the order bob, alice
C15_Witness ==
    /\ Analyzed
    /\ Len(run.agents) >= 2
    /\ run.agents[1].email = BobEmail
    /\ run.agents[2].email = AliceEmail
    /\ run.analysis.allAgents[1].health.overall
          = run.analysis.allAgents[2].health.overall
    /\ run.analysis.allAgents[1].email = BobEmail
    /\ run.analysis.allAgents[2].email = AliceEmail

\* C16: analyzing a team of zero agents ends with the empty-input error
\* EmptyTeamError, not with an exception from reading a missing element.
C16_EmptyTeamError ==
    ( /\ run.pc = "done"
      /\ run.agents = <<>>
      /\ run.result.error # "Failed to scrape TechDebtGPT" )
        => /\ run.analysis.threw
           /\ run.analysis.error = "EmptyTeamError"

ValidRecord(a) ==
    /\ a.email # ""
    /\ a.commits >= 0
    /\ a.pullRequests >= 0
    /\ a.codeReviews >= 0
    /\ a.bugsIntroduced >= 0
    /\ a.techDebtScore >= 0
    /\ a.velocity >= 0

\* C20: analyzeTeam gives no HealthScore to a record with a negative counter
\* or without an agent identity: every agent it scored is a valid record.
C20_InvalidRecordRejected ==
    Analyzed =>
        \A i \in 1..Len(run.analysis.allAgents) :
            ValidRecord(run.analysis.allAgents[i])

-----------------------------------------------------------------------------
(* Demo server: the improved agents *)

\* C19: in the demo server an email is in improvedAgents, and reported as
\* hasBeenImproved, exactly when some /api/improve call for that agent has
\* written its file; a call that answers 404 or 500 does not add the email.
C19_ImprovedIffMutated ==
    program = "demo" =>
        \A agent \in DemoAgents :
            hasBeenImproved(agent.email) <=> applied[agent.filePath].count >= 1

\* one agent improved, then a call for it that fails
C19_Witness ==
    /\ program = "demo"
    /\ hasBeenImproved("alice@todo-ai-agents.demo")
    /\ ~hasBeenImproved("bob@todo-ai-agents.demo")
    /\ applied["alice-agent.md"].count = 1
    /\ response.status = 500
    /\ response.filePath = "alice-agent.md"

-----------------------------------------------------------------------------
(* Scoring Engine and Diagnoser: further properties *)

HalfRoundedFloored(sum) == IF sum <= 0 THEN 0 ELSE (sum + 1) \div 2

\* C22 as stated: the quality score is the average of 100 - 10*bugsIntroduced
\* and 100 - techDebtScore, floored at 0 and rounded.
C22_QualityAverageOfRawTerms ==
    health.status # "none" =>
        health.breakdown.quality
            = HalfRoundedFloored((100 - 10 * metrics.bugsIntroduced)
                                   + (100 - metrics.techDebtScore))

\* C22 amended: the quality score is the average of 100 - 10*bugsIntroduced
\* and the debt term 100 - techDebtScore floored at 0, the average floored at
\* 0 and rounded.
C22_QualityAverageDebtFloored ==
    health.status # "none" =>
        health.breakdown.quality
            = HalfRoundedFloored(
                  (100 - 10 * metrics.bugsIntroduced)
                    + (IF metrics.techDebtScore < 100
                       THEN 100 - metrics.techDebtScore ELSE 0))

\* a debt index above 100 beside few bugs
C22_Witness ==
    /\ health.status # "none"
    /\ metrics.techDebtScore > 100
    /\ metrics.bugsIntroduced = 0
    /\ health.breakdown.quality = 50

Range(seq) == {seq[i] : i \in 1..Len(seq)}

\* C23: the Productivity cause lists 'Insufficient commit frequency' exactly
\* when the commits of the scored record are below minCommitsPerSprint, and
\* 'Low PR submission rate' exactly when its pull requests are below
\* minPRsPerSprint.
C23_ProductivityIssuesFromCounters ==
    diagnosis.done =>
        \A i \in 1..Len(diagnosis.rootCauses) :
            diagnosis.rootCauses[i].category = "Productivity" =>
                /\ "Insufficient commit frequency"
                        \in Range(diagnosis.rootCauses[i].issues)
                      <=> metrics.commits
                            < DefaultThresholds.minCommitsPerSprint
                /\ "Low PR submission rate"
                        \in Range(diagnosis.rootCauses[i].issues)
                      <=> metrics.pullRequests
                            < DefaultThresholds.minPRsPerSprint

ScenarioA == MetricsRecord(3, 1, 0, 4, 70, 2)

\* C25 as stated: scenario A scores productivity 30, quality 0,
\* collaboration 0, reliability 20, overall 12, critical, with four causes.
C25_ScenarioAAsStated ==
    (diagnosis.done /\ metrics = ScenarioA) =>
        /\ health.breakdown.productivity = 30
        /\ health.breakdown.quality = 0
        /\ health.breakdown.collaboration = 0
        /\ health.breakdown.reliability = 20
        /\ health.overall = 12
        /\ health.status = "critical"
        /\ Len(diagnosis.rootCauses) = 4

\* C25 amended: scenario A scores productivity 55, quality 45,
\* collaboration 0, reliability 20, overall 35, critical, with four causes.
C25_ScenarioA ==
    (diagnosis.done /\ metrics = ScenarioA) =>
        /\ health.breakdown.productivity = 55
        /\ health.breakdown.quality = 45
        /\ health.breakdown.collaboration = 0
        /\ health.breakdown.reliability = 20
        /\ health.overall = 35
        /\ health.status = "critical"
        /\ Len(diagnosis.rootCauses) = 4
        /\ CategoriesOf(diagnosis.rootCauses) = Categories

C25_Witness ==
    /\ diagnosis.done
    /\ metrics = ScenarioA
    /\ health.status = "critical"
    /\ Len(diagnosis.identified) = 4

\* C28: every Productivity or Quality cause found for a scored record
\* carries at least one issue string.
C28_CauseHasIssue ==
    diagnosis.done =>
        \A i \in 1..Len(diagnosis.rootCauses) :
            diagnosis.rootCauses[i].category \in {"Productivity", "Quality"}
                => diagnosis.rootCauses[i].issues # <<>>

-----------------------------------------------------------------------------
(* Improvement Plan: further properties *)

\* C24: the target score of a plan is min(currentScore + 25, 85), in its
\* targetScore field and in the 'Target Score' line of the rendered block,
\* which never exceeds 85 and agrees with the field.
C24_TargetScoreCapped ==
    run.improvements.generated =>
        LET plan == run.improvements
            current == run.analysis.lowestPerformer.score
            target == IF current + 25 < 85 THEN current + 25 ELSE 85
        IN  /\ plan.currentScore = current
            /\ plan.targetScore = target
            /\ plan.agentDefinitionUpdates.scoreLines.target = target
            /\ plan.agentDefinitionUpdates.scoreLines.target <= 85

\* C29: a plan never targets the document of an agent with another email.
C29_FilePathUnambiguous ==
    run.improvements.generated =>
        \A i \in 1..Len(run.agents) :
            run.agents[i].email # run.improvements.email
                => FilePathOf(run.agents[i].email)
                     # run.improvements.agentDefinitionUpdates.filePath

-----------------------------------------------------------------------------
(* Demo server: further properties *)

\* the string of a sequence of characters
Join(str) ==
    LET F[i \in 0..Len(str)] == IF i = 0 THEN "" ELSE F[i - 1] \o str[i]
    IN  F[Len(str)]

\* C21: each of the four recognized roles selects its own phrasing set, and
\* every other role string selects the Backend Developer phrasing set.
C21_UnrecognizedRoleFallsBack ==
    selected # NoSelection =>
        selected.roleKey = IF selected.role \in RecognizedRoles
                           THEN Join(selected.role)
                           ELSE "Backend Developer"

\* C30: an email is never removed from improvedAgents, and every response
\* of /api/analyze gives each agent improved before it a score in 85..94.
C30_ImprovedStaysImproved ==
    [][/\ improvedAgents \subseteq improvedAgents'
       /\ demoAnalysis' # demoAnalysis =>
             \A i \in 1..Len(demoAnalysis'.agents) :
                 demoAnalysis'.agents[i].email \in improvedAgents
                     => demoAnalysis'.agents[i].score \in 85..94]_vars

\* an improved agent is drawn as the lowest index and scores above 84
C30_Witness ==
    /\ demoAnalysis.done
    /\ \E i \in 1..Len(demoAnalysis.agents) :
          /\ i - 1 = demoAnalysis.lowestIndex
          /\ demoAnalysis.agents[i].email \in improvedAgents
          /\ demoAnalysis.agents[i].score \in 85..94
    /\ Len(demoAnalysis.agents) = 2

-----------------------------------------------------------------------------
(* Backend server: further properties *)

\* C26: an improvement record is saved with applied = 1, and a response
\* reports success, only if applyImprovements returned success.
C26_HistoryReflectsOutcome ==
    /\ \A k \in 1..Len(db.improvements) :
          db.improvements[k].applied = 1 => db.improvements[k].result.success
    /\ \A p \in Callers : http[p].success => http[p].applied.success

\* C27: there is at most one agent row per email, and no ingestion run
\* fails on the row another run inserted between its find and its add.
C27_FindOrCreateSafe ==
    /\ \A k, l \in 1..Len(db.agents) :
          db.agents[k].email = db.agents[l].email => k = l
    /\ \A r \in IngestRuns : ingest[r].error # UniqueViolation

====
